---- MODULE Spec2Model ----
(***************************************************************************)
(* Model of the vendored godis client used by the gmsmPlugin middleware:   *)
(* one Redis object, its connection (connection.go), the mode guard and    *)
(* the command methods of redis.go, and the pipeline / transaction / pool  *)
(* collaborators whose files are not part of the source tree.              *)
(*                                                                         *)
(* The connection record carries the fields of the Go struct plus the      *)
(* environment the code talks to: outBuf (commands written to the          *)
(* buffered output stream and not flushed), wire (replies owed by the      *)
(* server on the current socket, in FIFO order) and io (the network        *)
(* operations performed by the operation in progress).                     *)
(***************************************************************************)
EXTENDS Integers, Sequences, FiniteSets, TLC

VARIABLES conn, isInMulti, pipeline, dataSource, pipe, pool, holder, last,
          mu, pc, smAlgorithm, rw

vars == <<conn, isInMulti, pipeline, dataSource, pipe, pool, holder, last,
          mu, pc, smAlgorithm, rw>>

(***************************************************************************)
(* Bounds of the model.                                                    *)
(***************************************************************************)
\* commands that may be outstanding (buffered or awaiting a reply) at once
MaxCmds == 2
\* how far below zero the model follows pipelinedCommands
MaxUnderflow == 1

(***************************************************************************)
(* Values.                                                                 *)
(***************************************************************************)
Nil == [id |-> 0, tag |-> "nil"]

ErrVal(id, err) == [id |-> id, tag |-> err]

NoIO == [dial |-> 0, write |-> 0, read |-> 0, close |-> 0]

Res(c, err, val) == [c |-> c, err |-> err, val |-> val]

\* the environment of one operation: which network steps succeed
Env == [dialOk : BOOLEAN, dlOk : BOOLEAN, writeOk : BOOLEAN, flushOk : BOOLEAN,
        infOk : BOOLEAN, rbOk : BOOLEAN, failAt : 0 .. (MaxCmds + 1)]

EnvOk == [dialOk |-> TRUE, dlOk |-> TRUE, writeOk |-> TRUE, flushOk |-> TRUE,
          infOk |-> TRUE, rbOk |-> TRUE, failAt |-> 0]

\* what the decoder can hand back, by Go dynamic type: "bytes" ([]byte: a
\* status line or a bulk string), "int64", "array" ([]interface{}), "nil"
\* (a null bulk or null array); "error" is a server error reply
ReplyTags == {"bytes", "int64", "array", "nil", "error"}

IdSeq(s) == [i \in 1 .. Len(s) |-> s[i].id]

Outstanding(c) == c.wire \o c.outBuf

CanIssue(c) == Len(Outstanding(c)) < MaxCmds

\* command identities are names only: between operations the outstanding
\* commands are renumbered 1, 2, ... in submission order
NewCmd(c, tag) == [id |-> Len(Outstanding(c)) + 1, tag |-> tag]

Renumber(s, from) == [i \in 1 .. Len(s) |-> [s[i] EXCEPT !.id = from + i]]

(***************************************************************************)
(* connection.go                                                           *)
(***************************************************************************)
newConnection ==
    [socket |-> "nil", protocol |-> "nil", broken |-> FALSE,
     pipelinedCommands |-> 0, deadline |-> "none",
     outBuf |-> <<>>, wire |-> <<>>, io |-> NoIO]

isConnected(c) == c.socket # "nil"

\* connect as it would be if a fresh dial also cleared the broken flag
connect_clearsBroken(c, e) ==
    IF c.socket # "nil" THEN Res(c, "nil", Nil)
    ELSE LET d == [c EXCEPT !.io.dial = @ + 1]
         IN  IF ~e.dialOk \/ ~e.dlOk THEN Res(d, "ConnectError", Nil)
             ELSE Res([d EXCEPT !.socket = "open", !.protocol = "set",
                                !.deadline = "soTimeout", !.broken = FALSE,
                                !.outBuf = <<>>, !.wire = <<>>], "nil", Nil)

\* connect as it would be without the isConnected check
connect_alwaysDials(c, e) ==
    LET d == [c EXCEPT !.io.dial = @ + 1]
    IN  IF ~e.dialOk \/ ~e.dlOk THEN Res(d, "ConnectError", Nil)
        ELSE Res([d EXCEPT !.socket = "open", !.protocol = "set",
                           !.deadline = "soTimeout",
                           !.outBuf = <<>>, !.wire = <<>>], "nil", Nil)

connect(c, e) ==
    IF isConnected(c) THEN Res(c, "nil", Nil)
    ELSE LET d == [c EXCEPT !.io.dial = @ + 1]
         IN  IF ~e.dialOk \/ ~e.dlOk THEN Res(d, "ConnectError", Nil)
             ELSE Res([d EXCEPT !.socket = "open", !.protocol = "set",
                                !.deadline = "soTimeout",
                                !.outBuf = <<>>, !.wire = <<>>], "nil", Nil)

\* close as it would be if it also cleared the broken flag
close_clearsBroken(c) ==
    IF c.socket = "nil" THEN Res(c, "nil", Nil)
    ELSE Res([c EXCEPT !.socket = "nil", !.deadline = "none", !.wire = <<>>,
                       !.broken = FALSE, !.io.close = @ + 1],
             "nil", Nil)

\* close as it would be if it closed the socket and kept the reference
close_keepsSocket(c) ==
    IF c.socket = "nil" THEN Res(c, "nil", Nil)
    ELSE Res([c EXCEPT !.io.close = @ + 1], "nil", Nil)

close(c) ==
    IF c.socket = "nil" THEN Res(c, "nil", Nil)
    ELSE Res([c EXCEPT !.socket = "nil", !.deadline = "none", !.wire = <<>>,
                       !.io.close = @ + 1],
             "nil", Nil)

\* protocol.sendCommand: encode the command into the output buffer
protocol_sendCommand(c, cmd, e) ==
    IF ~e.writeOk THEN Res(c, "ConnectError", Nil)
    ELSE Res([c EXCEPT !.outBuf = Append(@, cmd)], "nil", Nil)

\* protocol.os.flush: write the buffered bytes to the socket
os_flush(c, e) ==
    IF c.outBuf = <<>> THEN Res(c, "nil", Nil)
    ELSE LET w == [c EXCEPT !.io.write = @ + 1]
         IN  IF c.socket = "nil" \/ ~e.flushOk THEN Res(w, "IOError", Nil)
             ELSE Res([w EXCEPT !.wire = @ \o c.outBuf, !.outBuf = <<>>],
                      "nil", Nil)

\* protocol.read: decode one reply from the socket; a read with no reply
\* owed runs into the deadline
protocol_read(c, e) ==
    IF c.protocol = "nil" THEN Res(c, "Panic", Nil)
    ELSE LET rd == [c EXCEPT !.io.read = @ + 1]
         IN  IF c.socket = "nil" \/ c.wire = <<>> \/ rd.io.read = e.failAt
             THEN Res(rd, "ConnectError", ErrVal(0, "ConnectError"))
             ELSE LET h == Head(c.wire)
                      t == [rd EXCEPT !.wire = Tail(@)]
                  IN  IF h.tag = "error"
                      THEN Res(t, "RedisError", ErrVal(h.id, "RedisError"))
                      ELSE Res(t, "nil", h)

\* sendCommand as it would be if it counted the command before sending it
sendCommand_countsFirst(c, cmd, e) ==
    LET n == [c EXCEPT !.pipelinedCommands = @ + 1]
        r == connect(n, e)
    IN  IF r.err # "nil" THEN r ELSE protocol_sendCommand(r.c, cmd, e)

sendCommand(c, cmd, e) ==
    LET r == connect(c, e)
    IN  IF r.err # "nil" THEN r
        ELSE LET w == protocol_sendCommand(r.c, cmd, e)
             IN  IF w.err # "nil" THEN w
                 ELSE Res([w.c EXCEPT !.pipelinedCommands = @ + 1], "nil", Nil)

sendCommandByStr(c, cmd, e) ==
    LET r == connect(c, e)
    IN  IF r.err # "nil" THEN r
        ELSE LET w == protocol_sendCommand(r.c, cmd, e)
             IN  IF w.err # "nil" THEN w
                 ELSE Res([w.c EXCEPT !.pipelinedCommands = @ + 1], "nil", Nil)

\* readProtocolWithCheckingBroken as it would be without the broken check
readProtocolWithCheckingBroken_unfenced(c, e) ==
    LET r == protocol_read(c, e)
    IN  IF r.err = "ConnectError"
        THEN Res([r.c EXCEPT !.broken = TRUE], r.err, r.val)
        ELSE r

\* readProtocolWithCheckingBroken as it would be if every read error marked
\* the connection broken
readProtocolWithCheckingBroken_anyError(c, e) ==
    IF c.broken THEN Res(c, "ConnectError", ErrVal(0, "ConnectError"))
    ELSE LET r == protocol_read(c, e)
         IN  IF r.err # "nil"
             THEN Res([r.c EXCEPT !.broken = TRUE], r.err, r.val)
             ELSE r

readProtocolWithCheckingBroken(c, e) ==
    IF c.broken THEN Res(c, "ConnectError", ErrVal(0, "ConnectError"))
    ELSE LET r == protocol_read(c, e)
         IN  IF r.err = "ConnectError"
             THEN Res([r.c EXCEPT !.broken = TRUE], r.err, r.val)
             ELSE r

\* flush as it would be if a failed write were attempted a second time
flush_retries(c, e) ==
    IF c.protocol = "nil" THEN Res(c, "Panic", Nil)
    ELSE LET r == os_flush(c, e)
         IN  IF r.err # "nil"
             THEN Res([os_flush(r.c, e).c EXCEPT !.broken = TRUE],
                      "ConnectError", Nil)
             ELSE r

flush(c, e) ==
    IF c.protocol = "nil" THEN Res(c, "Panic", Nil)
    ELSE LET r == os_flush(c, e)
         IN  IF r.err # "nil"
             THEN Res([r.c EXCEPT !.broken = TRUE], "ConnectError", Nil)
             ELSE r

\* getOne as it would be if it did not count the reply it consumes
getOne_uncounted(c, e) ==
    LET f == flush(c, e)
    IN  IF f.err # "nil" THEN f ELSE readProtocolWithCheckingBroken(f.c, e)

getOne(c, e) ==
    LET f == flush(c, e)
    IN  IF f.err # "nil" THEN f
        ELSE readProtocolWithCheckingBroken(
                 [f.c EXCEPT !.pipelinedCommands = @ - 1], e)

\* the loop of getAll as it would be if it put each reply in front
RECURSIVE getAllLoop_prepend(_, _, _, _)
getAllLoop_prepend(c, num, all, e) ==
    IF c.pipelinedCommands > num
    THEN LET r == readProtocolWithCheckingBroken(c, e)
         IN  getAllLoop_prepend([r.c EXCEPT !.pipelinedCommands = @ - 1], num,
                                <<r.val>> \o all, e)
    ELSE [c |-> c, err |-> "nil", val |-> Nil, all |-> all]

\* the loop of getAll as it would be if it stopped at the first failed read
RECURSIVE getAllLoop_abort(_, _, _, _)
getAllLoop_abort(c, num, all, e) ==
    IF c.pipelinedCommands > num
    THEN LET r == readProtocolWithCheckingBroken(c, e)
         IN  IF r.err # "nil"
             THEN [c |-> r.c, err |-> "nil", val |-> Nil, all |-> Append(all, r.val)]
             ELSE getAllLoop_abort([r.c EXCEPT !.pipelinedCommands = @ - 1], num,
                                   Append(all, r.val), e)
    ELSE [c |-> c, err |-> "nil", val |-> Nil, all |-> all]

\* the loop of getAll: one read per command owed beyond num, errors stored
\* in place
RECURSIVE getAllLoop(_, _, _, _)
getAllLoop(c, num, all, e) ==
    IF c.pipelinedCommands > num
    THEN LET r == readProtocolWithCheckingBroken(c, e)
         IN  getAllLoop([r.c EXCEPT !.pipelinedCommands = @ - 1], num,
                        Append(all, r.val), e)
    ELSE [c |-> c, err |-> "nil", val |-> Nil, all |-> all]

getAll(c, num, e) ==
    LET f == flush(c, e)
    IN  IF f.err # "nil" THEN [c |-> f.c, err |-> f.err, val |-> Nil, all |-> <<>>]
        ELSE getAllLoop(f.c, num, <<>>, e)

setTimeoutInfinite(c, e) ==
    LET r == IF isConnected(c) THEN Res(c, "nil", Nil) ELSE connect(c, e)
    IN  IF r.err # "nil" THEN r
        ELSE IF ~e.infOk
             THEN Res([r.c EXCEPT !.broken = TRUE], "ConnectError", Nil)
             ELSE Res([r.c EXCEPT !.deadline = "infinite"], "nil", Nil)

\* rollbackTimeout as it would be if a missing socket were only reported
rollbackTimeout_reportsOnly(c, e) ==
    IF c.socket = "nil" THEN Res(c, "ConnectError", Nil)
    ELSE IF ~e.rbOk
         THEN Res([c EXCEPT !.broken = TRUE], "ConnectError", Nil)
         ELSE Res([c EXCEPT !.deadline = "connectionTimeout"], "nil", Nil)

rollbackTimeout(c, e) ==
    IF c.socket = "nil"
    THEN Res([c EXCEPT !.broken = TRUE], "ConnectError", Nil)
    ELSE IF ~e.rbOk
         THEN Res([c EXCEPT !.broken = TRUE], "ConnectError", Nil)
         ELSE Res([c EXCEPT !.deadline = "connectionTimeout"], "nil", Nil)

getStatusCodeReply(c, e) ==
    LET r == getOne(c, e)
    IN  IF r.err # "nil" THEN r
        ELSE IF r.val.tag \in {"nil", "bytes"} THEN r
             ELSE Res(r.c, "DataError", Nil)

getBinaryBulkReply(c, e) ==
    LET r == getOne(c, e)
    IN  IF r.err # "nil" THEN r
        ELSE IF r.val.tag \in {"nil", "bytes"} THEN r
             ELSE Res(r.c, "Panic", Nil)

getBulkReply(c, e) == getBinaryBulkReply(c, e)

\* getIntegerReply as it would be if a null reply were an error
getIntegerReply_nullIsError(c, e) ==
    LET r == getOne(c, e)
    IN  IF r.err # "nil" THEN r
        ELSE IF r.val.tag = "int64" THEN r
             ELSE Res(r.c, "DataError", Nil)

\* a null reply becomes 0 ("zero"), an int64 is handed back as it is, and
\* anything else becomes -1 ("minusOne") with no error
getIntegerReply(c, e) ==
    LET r == getOne(c, e)
    IN  IF r.err # "nil" THEN r
        ELSE IF r.val.tag = "nil"
             THEN Res(r.c, "nil", [id |-> r.val.id, tag |-> "zero"])
             ELSE IF r.val.tag = "int64" THEN r
                  ELSE Res(r.c, "nil", [id |-> r.val.id, tag |-> "minusOne"])

\* a null reply is handed back as an empty array
getUnflushedObjectMultiBulkReply(c, e) ==
    LET r == readProtocolWithCheckingBroken(c, e)
    IN  IF r.err # "nil" THEN r
        ELSE IF r.val.tag = "nil"
             THEN Res(r.c, "nil", [r.val EXCEPT !.tag = "array"])
             ELSE IF r.val.tag = "array" THEN r
                  ELSE Res(r.c, "Panic", Nil)

getRawObjectMultiBulkReply(c, e) == getUnflushedObjectMultiBulkReply(c, e)

getObjectMultiBulkReply(c, e) ==
    LET f == flush(c, e)
    IN  IF f.err # "nil" THEN f
        ELSE getRawObjectMultiBulkReply(
                 [f.c EXCEPT !.pipelinedCommands = @ - 1], e)

(***************************************************************************)
(* redis.go: the Redis object.  Every method starts from the connection    *)
(* with the per-operation io record cleared.                               *)
(***************************************************************************)
Begin == [conn EXCEPT !.io = NoIO]

\* client.set, client.get, client.setBit, client.eval, ...: build the
\* arguments and hand the command to the connection
client_send(c, cmd, e) == sendCommand(c, cmd, e)

Connect(e) == connect(Begin, e)

checkIsInMultiOrPipeline ==
    IF isInMulti THEN "DataError"
    ELSE IF pipeline # "nil" /\ pipe.pipelinedResponses > 0 THEN "DataError"
         ELSE "nil"

\* Close as it would be if it closed the socket before asking for the pool
Close_closesFirst ==
    LET r == close([conn EXCEPT !.io = NoIO])
    IN  IF dataSource # "nil"
        THEN IF conn.broken
             THEN [c |-> r.c, err |-> "nil", val |-> Nil, route |-> "returnBroken"]
             ELSE [c |-> r.c, err |-> "nil", val |-> Nil, route |-> "returnHealthy"]
        ELSE [c |-> r.c, err |-> r.err, val |-> Nil, route |-> "close"]

\* Close: the route taken and the connection it leaves
Close ==
    IF dataSource # "nil"
    THEN IF conn.broken
         THEN [c |-> Begin, err |-> "nil", val |-> Nil, route |-> "returnBroken"]
         ELSE [c |-> Begin, err |-> "nil", val |-> Nil, route |-> "returnHealthy"]
    ELSE LET r == close(Begin)
         IN  [c |-> r.c, err |-> r.err, val |-> Nil, route |-> "close"]

Send(cmd, e) == sendCommand(Begin, cmd, e)

SendByStr(cmd, e) == sendCommandByStr(Begin, cmd, e)

Receive(e) == getOne(Begin, e)

\* Set as it would be if the mode guard were consulted after sending
Set_guardAfterSend(cmd, e) ==
    LET s == client_send(Begin, cmd, e)
    IN  IF s.err # "nil" THEN s
        ELSE IF checkIsInMultiOrPipeline # "nil"
             THEN Res(s.c, checkIsInMultiOrPipeline, Nil)
             ELSE getStatusCodeReply(s.c, e)

Set(cmd, e) ==
    IF checkIsInMultiOrPipeline # "nil"
    THEN Res(Begin, checkIsInMultiOrPipeline, Nil)
    ELSE LET s == client_send(Begin, cmd, e)
         IN  IF s.err # "nil" THEN s ELSE getStatusCodeReply(s.c, e)

Get(cmd, e) ==
    IF checkIsInMultiOrPipeline # "nil"
    THEN Res(Begin, checkIsInMultiOrPipeline, Nil)
    ELSE LET s == client_send(Begin, cmd, e)
         IN  IF s.err # "nil" THEN s ELSE getBulkReply(s.c, e)

\* SetBit, GetBit, BitCount, BitCountRange, BitPos, BitOp: no mode guard
SetBit(cmd, e) ==
    LET s == client_send(Begin, cmd, e)
    IN  IF s.err # "nil" THEN s ELSE getIntegerReply(s.c, e)

\* Eval as it would be if the restore were called by hand on the success
\* path only
Eval_restoreOnSuccessOnly(cmd, e) ==
    LET t == setTimeoutInfinite(Begin, e)
        body == IF t.err # "nil" THEN t
                ELSE LET s == client_send(t.c, cmd, e)
                     IN  IF s.err # "nil" THEN s ELSE getOne(s.c, e)
        d == rollbackTimeout(body.c, e)
    IN  IF body.err # "nil" THEN body ELSE Res(d.c, body.err, body.val)

\* Eval, EvalByKeyArgs: no mode guard; the deferred rollbackTimeout runs on
\* every exit path and its result is dropped
Eval(cmd, e) ==
    LET t == setTimeoutInfinite(Begin, e)
        body == IF t.err # "nil" THEN t
                ELSE LET s == client_send(t.c, cmd, e)
                     IN  IF s.err # "nil" THEN s ELSE getOne(s.c, e)
        d == rollbackTimeout(body.c, e)
    IN  Res(d.c, body.err, body.val)

\* client.multi: send MULTI and enter the queuing state
client_multi(c, cmd, e) ==
    LET s == sendCommand(c, cmd, e)
    IN  [c |-> s.c, err |-> s.err, val |-> Nil,
         isInMulti |-> IF s.err = "nil" THEN TRUE ELSE isInMulti]

Multi(cmd, e) == client_multi(Begin, cmd, e)

(***************************************************************************)
(* Pipeline, Transaction and Pool: the collaborators of Redis whose files  *)
(* are not in the source tree, modelled from the design description.       *)
(***************************************************************************)
\* newPipeline(r.client): a fresh Pipeline over the client; Redis.Pipelined
\* returns it and stores it nowhere
newPipeline == [live |-> TRUE, pipelinedResponses |-> 0]

Pipelined == newPipeline

\* Pipeline.Set ...: send without reading and record the owed response
Pipeline_Set(cmd, e) == client_send(Begin, cmd, e)

\* Pipeline.Sync: one flush, then every owed reply in order
Pipeline_Sync(e) == getAll(Begin, 0, e)

\* Transaction.Set ...: the command is sent at once, the server queues it
Transaction_Set(cmd, e) == client_send(Begin, cmd, e)

\* client.exec / client.discard: send the command and leave the queuing state
client_exec(c, cmd, e) ==
    LET s == sendCommand(c, cmd, e)
    IN  [c |-> s.c, err |-> s.err, val |-> Nil,
         isInMulti |-> IF s.err = "nil" THEN FALSE ELSE isInMulti]

\* Transaction.Exec: EXEC, drop the acknowledgments, read the EXEC reply
Transaction_Exec(cmd, e) ==
    LET x == client_exec(Begin, cmd, e)
        g == getAll(x.c, 1, e)
        o == getObjectMultiBulkReply(g.c, e)
    IN  IF x.err # "nil"
        THEN [c |-> x.c, err |-> x.err, val |-> Nil, isInMulti |-> x.isInMulti,
              g |-> [c |-> x.c, err |-> "skipped", all |-> <<>>]]
        ELSE IF g.err # "nil"
             THEN [c |-> g.c, err |-> g.err, val |-> Nil,
                   isInMulti |-> x.isInMulti, g |-> g]
             ELSE [c |-> o.c, err |-> o.err, val |-> o.val,
                   isInMulti |-> x.isInMulti, g |-> g]

\* Transaction.Discard: DISCARD, drop the acknowledgments, read the status
Transaction_Discard(cmd, e) ==
    LET x == client_exec(Begin, cmd, e)
        g == getAll(x.c, 1, e)
        o == getStatusCodeReply(g.c, e)
    IN  IF x.err # "nil"
        THEN [c |-> x.c, err |-> x.err, val |-> Nil, isInMulti |-> x.isInMulti,
              g |-> [c |-> x.c, err |-> "skipped", all |-> <<>>]]
        ELSE IF g.err # "nil"
             THEN [c |-> g.c, err |-> g.err, val |-> Nil,
                   isInMulti |-> x.isInMulti, g |-> g]
             ELSE [c |-> o.c, err |-> o.err, val |-> o.val,
                   isInMulti |-> x.isInMulti, g |-> g]

\* the callers that may hold a pointer to the pooled Redis
Callers == {"a", "b"}

\* no request has been served: nothing written, nothing read from the store
NoRequest ==
    [k \in Callers |-> [out |-> <<>>, value |-> "none", body |-> "none"]]

\* the callers that borrowed the client and have not called Close since
Active == {k \in Callers : holder[k] = "active"}

\* Pool.returnResourceObject / returnBrokenResourceObject / GetResource
returnResourceObject == "idle"

returnBrokenResourceObject == "invalidated"

GetResource == "borrowed"

(***************************************************************************)
(* The state machine.  An operation leaves in last its name, its error,    *)
(* the tag of the value it returned, for a drain the number of entries and *)
(* of error entries, and what the connection looked like when it started.  *)
(***************************************************************************)
Finish(c) ==
    [c EXCEPT !.io = NoIO,
              !.wire = Renumber(c.wire, 0),
              !.outBuf = Renumber(c.outBuf, Len(c.wire))]

ErrTags == {"ConnectError", "RedisError"}

RECURSIVE CountErr(_)
CountErr(s) ==
    IF s = <<>> THEN 0
    ELSE (IF Head(s).tag \in ErrTags THEN 1 ELSE 0) + CountErr(Tail(s))

Pre == [broken |-> conn.broken, socket |-> conn.socket]

Outcome(op, r, all) ==
    [op |-> op, err |-> r.err, val |-> r.val.tag, n |-> Len(all),
     nerr |-> CountErr(all), pre |-> Pre]

\* the environments in which at most one of the named steps fails
EnvOf(fields) ==
    {e \in Env : /\ \A f \in (DOMAIN EnvOk) \ fields : e[f] = EnvOk[f]
                 /\ Cardinality({f \in fields : e[f] # EnvOk[f]}) <= 1}

DialEnv == EnvOf({"dialOk", "dlOk"})

SendEnv == EnvOf({"dialOk", "writeOk"})

ReadEnv == {e \in EnvOf({"flushOk", "failAt"}) : e.failAt <= 1}

CmdEnv == {e \in EnvOf({"dialOk", "writeOk", "flushOk", "failAt"}) : e.failAt <= 1}

\* Eval: one failing step in the body, and the deferred restore may fail too
EvalEnv ==
    {[e EXCEPT !.rbOk = b] :
        e \in {x \in EnvOf({"dialOk", "writeOk", "flushOk", "failAt", "infOk"}) :
                  x.failAt <= 1},
        b \in BOOLEAN}

DrainEnv == EnvOf({"flushOk", "failAt"})

TxEnv == EnvOf({"dialOk", "writeOk", "flushOk", "failAt"})

\* a client handed back to the pool is used again only after the next borrow
Owned == pool \in {"none", "borrowed"}

CanSend == Owned /\ CanIssue(conn) /\ conn.pipelinedCommands < MaxCmds

CanRead == Owned /\ conn.pipelinedCommands > -MaxUnderflow

\* NewRedis: a client of its own, no pool behind it
NewRedis ==
    /\ conn = newConnection
    /\ isInMulti = FALSE
    /\ pipeline = "nil"
    /\ pipe = [live |-> FALSE, pipelinedResponses |-> 0]

Init ==
    /\ NewRedis
    /\ dataSource = "nil"
    /\ pool = "none"
    /\ holder = [k \in Callers |-> "none"]
    /\ mu = "free"
    /\ pc = [k \in Callers |-> "ready"]
    /\ smAlgorithm = "SM3"
    /\ rw = NoRequest
    /\ last = [op |-> "NewRedis", err |-> "nil", val |-> "nil", n |-> 0, nerr |-> 0,
               pre |-> [broken |-> FALSE, socket |-> "nil"]]

DoConnect ==
    \E e \in DialEnv :
        /\ Owned
        /\ conn' = Finish(Connect(e).c)
        /\ last' = Outcome("Connect", Connect(e), <<>>)
        /\ UNCHANGED <<smAlgorithm, rw, mu, pc, isInMulti, pipeline, dataSource, pipe, pool, holder>>

\* Close by the owner of an unpooled client, or by any caller that still
\* holds a pointer to the pooled one
DoClose ==
    \E k \in Callers :
        /\ dataSource = "nil" \/ holder[k] # "none"
        /\ conn' = Finish(Close.c)
        /\ last' = Outcome("Close", Close, <<>>)
        /\ pool' = CASE Close.route = "returnBroken" -> returnBrokenResourceObject
                     [] Close.route = "returnHealthy" -> returnResourceObject
                     [] OTHER -> pool
        /\ holder' = IF holder[k] = "none" THEN holder
                      ELSE [holder EXCEPT ![k] = "returned"]
        /\ UNCHANGED <<smAlgorithm, rw, mu, pc, isInMulti, pipeline, dataSource, pipe>>

\* Pool.GetResource by caller k: the idle client is handed out
DoGetResource ==
    \E k \in Callers :
        /\ pool = "idle"
        /\ pool' = GetResource
        /\ dataSource' = "pool"
        /\ holder' = [holder EXCEPT ![k] = "active"]
        /\ last' = Outcome("GetResource", Res(conn, "nil", Nil), <<>>)
        /\ UNCHANGED <<smAlgorithm, rw, mu, pc, conn, isInMulti, pipeline, pipe>>

DoSend ==
    \E e \in SendEnv, tag \in {"bytes", "error"} :
        /\ CanSend
        /\ conn' = Finish(Send(NewCmd(conn, tag), e).c)
        /\ last' = Outcome("Send", Send(NewCmd(conn, tag), e), <<>>)
        /\ UNCHANGED <<smAlgorithm, rw, mu, pc, isInMulti, pipeline, dataSource, pipe, pool, holder>>

DoSendByStr ==
    \E e \in SendEnv, tag \in {"bytes", "error"} :
        /\ CanSend
        /\ conn' = Finish(SendByStr(NewCmd(conn, tag), e).c)
        /\ last' = Outcome("SendByStr", SendByStr(NewCmd(conn, tag), e), <<>>)
        /\ UNCHANGED <<smAlgorithm, rw, mu, pc, isInMulti, pipeline, dataSource, pipe, pool, holder>>

DoReceive ==
    \E e \in ReadEnv :
        /\ CanRead
        /\ conn' = Finish(Receive(e).c)
        /\ last' = Outcome("Receive", Receive(e), <<>>)
        /\ UNCHANGED <<smAlgorithm, rw, mu, pc, isInMulti, pipeline, dataSource, pipe, pool, holder>>

DoSet ==
    \E e \in CmdEnv, tag \in {"bytes", "error"} :
        /\ CanSend
        /\ conn' = Finish(Set(NewCmd(conn, tag), e).c)
        /\ last' = Outcome("Set", Set(NewCmd(conn, tag), e), <<>>)
        /\ UNCHANGED <<smAlgorithm, rw, mu, pc, isInMulti, pipeline, dataSource, pipe, pool, holder>>

DoGet ==
    \E e \in CmdEnv, tag \in {"bytes", "error"} :
        /\ CanSend
        /\ conn' = Finish(Get(NewCmd(conn, tag), e).c)
        /\ last' = Outcome("Get", Get(NewCmd(conn, tag), e), <<>>)
        /\ UNCHANGED <<smAlgorithm, rw, mu, pc, isInMulti, pipeline, dataSource, pipe, pool, holder>>

DoSetBit ==
    \E e \in CmdEnv, tag \in {"int64", "nil", "error"} :
        /\ CanSend
        /\ conn' = Finish(SetBit(NewCmd(conn, tag), e).c)
        /\ last' = Outcome("SetBit", SetBit(NewCmd(conn, tag), e), <<>>)
        /\ UNCHANGED <<smAlgorithm, rw, mu, pc, isInMulti, pipeline, dataSource, pipe, pool, holder>>

DoEval ==
    \E e \in EvalEnv, tag \in {"int64", "error"} :
        /\ CanSend
        /\ conn' = Finish(Eval(NewCmd(conn, tag), e).c)
        /\ last' = Outcome("Eval", Eval(NewCmd(conn, tag), e), <<>>)
        /\ UNCHANGED <<smAlgorithm, rw, mu, pc, isInMulti, pipeline, dataSource, pipe, pool, holder>>

DoMulti ==
    \E e \in SendEnv :
        LET r == Multi(NewCmd(conn, "bytes"), e)
        IN  /\ CanSend
            /\ conn' = Finish(r.c)
            /\ isInMulti' = r.isInMulti
            /\ last' = Outcome("Multi", r, <<>>)
            /\ UNCHANGED <<smAlgorithm, rw, mu, pc, pipeline, dataSource, pipe, pool, holder>>

DoTransactionSet ==
    \E e \in SendEnv, tag \in {"bytes", "error"} :
        LET r == Transaction_Set(NewCmd(conn, tag), e)
        IN  /\ isInMulti
            /\ CanSend
            /\ conn' = Finish(r.c)
            /\ last' = Outcome("Transaction.Set", r, <<>>)
            /\ UNCHANGED <<smAlgorithm, rw, mu, pc, isInMulti, pipeline, dataSource, pipe, pool, holder>>

DoExec ==
    \E e \in TxEnv, tag \in {"array", "error"} :
        LET r == Transaction_Exec(NewCmd(conn, tag), e)
        IN  /\ isInMulti
            /\ CanSend
            /\ conn' = Finish(r.c)
            /\ isInMulti' = r.isInMulti
            /\ last' = Outcome("Transaction.Exec", r, r.g.all)
            /\ UNCHANGED <<smAlgorithm, rw, mu, pc, pipeline, dataSource, pipe, pool, holder>>

DoDiscard ==
    \E e \in TxEnv :
        LET r == Transaction_Discard(NewCmd(conn, "bytes"), e)
        IN  /\ isInMulti
            /\ CanSend
            /\ conn' = Finish(r.c)
            /\ isInMulti' = r.isInMulti
            /\ last' = Outcome("Transaction.Discard", r, r.g.all)
            /\ UNCHANGED <<smAlgorithm, rw, mu, pc, pipeline, dataSource, pipe, pool, holder>>

DoPipelined ==
    /\ Owned
    /\ pipe' = Pipelined
    /\ last' = Outcome("Pipelined", Res(conn, "nil", Nil), <<>>)
    /\ UNCHANGED <<smAlgorithm, rw, mu, pc, conn, isInMulti, pipeline, dataSource, pool, holder>>

DoPipelineSet ==
    \E e \in SendEnv, tag \in {"bytes", "error"} :
        LET r == Pipeline_Set(NewCmd(conn, tag), e)
        IN  /\ pipe.live
            /\ pipe.pipelinedResponses < MaxCmds
            /\ CanSend
            /\ conn' = Finish(r.c)
            /\ pipe' = IF r.err = "nil"
                       THEN [pipe EXCEPT !.pipelinedResponses = @ + 1] ELSE pipe
            /\ last' = Outcome("Pipeline.Set", r, <<>>)
            /\ UNCHANGED <<smAlgorithm, rw, mu, pc, isInMulti, pipeline, dataSource, pool, holder>>

DoSync ==
    \E e \in DrainEnv :
        LET r == Pipeline_Sync(e)
        IN  /\ pipe.live
            /\ Owned
            /\ conn' = Finish(r.c)
            /\ pipe' = IF r.err = "nil"
                       THEN [pipe EXCEPT !.pipelinedResponses = 0] ELSE pipe
            /\ last' = Outcome("Pipeline.Sync", r, r.all)
            /\ UNCHANGED <<smAlgorithm, rw, mu, pc, isInMulti, pipeline, dataSource, pool, holder>>

Next ==
    \/ DoConnect
    \/ DoClose
    \/ DoSend
    \/ DoSendByStr
    \/ DoReceive
    \/ DoSet
    \/ DoGet
    \/ DoSetBit
    \/ DoEval
    \/ DoMulti
    \/ DoTransactionSet
    \/ DoExec
    \/ DoDiscard
    \/ DoPipelined
    \/ DoPipelineSet
    \/ DoSync

Spec == Init /\ [][Next]_vars

(***************************************************************************)
(* The client either on its own or handed out by a pool (GetResource has  *)
(* set dataSource): Close then hands it back instead of closing the socket.*)
(***************************************************************************)
InitPool ==
    /\ NewRedis
    /\ \/ /\ dataSource = "nil"
          /\ pool = "none"
          /\ holder = [k \in Callers |-> "none"]
       \/ /\ dataSource = "pool"
          /\ pool = GetResource
          /\ holder = [k \in Callers |-> IF k = "a" THEN "active" ELSE "none"]
    /\ mu = "free"
    /\ pc = [k \in Callers |-> "ready"]
    /\ smAlgorithm = "SM3"
    /\ rw = NoRequest
    /\ last = [op |-> "NewRedis", err |-> "nil", val |-> "nil", n |-> 0, nerr |-> 0,
               pre |-> [broken |-> FALSE, socket |-> "nil"]]

NextPool ==
    \/ DoConnect
    \/ DoClose
    \/ DoGetResource
    \/ DoSend
    \/ DoReceive
    \/ DoSet
    \/ DoGet
    \/ DoEval

SpecPool == InitPool /\ [][NextPool]_vars

(***************************************************************************)
(* Close and setDataSource called concurrently by the goroutines that hold *)
(* the Redis.  Goroutine k is at pc[k]; a step is one operation on the     *)
(* mutex or one access to a shared field.  Connect, Send and Receive run   *)
(* between the calls, while no goroutine is inside Close or setDataSource. *)
(***************************************************************************)
\* r.mu.Lock() as it would be if the mutex excluded nobody
mu_Lock_notExclusive(k) == mu \in {"free"} \cup Callers

\* r.mu.Lock(): goroutine k gets the mutex only while nobody holds it
mu_Lock(k) == mu = "free"

\* goroutine k is between Lock and Unlock
InBody(k) == pc[k] \notin {"ready", "Close.Lock", "setDataSource.Lock"}

Quiescent == \A k \in Callers : pc[k] = "ready"

Goto(k, label) == pc' = [pc EXCEPT ![k] = label]

CallClose(k) ==
    /\ pc[k] = "ready"
    /\ Goto(k, "Close.Lock")
    /\ UNCHANGED <<smAlgorithm, rw, conn, isInMulti, pipeline, dataSource, pipe, pool, holder,
                   last, mu>>

CloseLock(k) ==
    /\ pc[k] = "Close.Lock"
    /\ mu_Lock(k)
    /\ mu' = k
    /\ Goto(k, "Close.dataSource")
    /\ UNCHANGED <<smAlgorithm, rw, conn, isInMulti, pipeline, dataSource, pipe, pool, holder,
                   last>>

\* if r.dataSource != nil: a pointer caught in the middle of a write is
\* neither nil nor the pool
CloseReadDataSource(k) ==
    /\ pc[k] = "Close.dataSource"
    /\ Goto(k, CASE dataSource = "nil" -> "close.isConnected"
                 [] dataSource = "pool" -> "Close.return"
                 [] OTHER -> "Close.torn")
    /\ UNCHANGED <<smAlgorithm, rw, conn, isInMulti, pipeline, dataSource, pipe, pool, holder,
                   last, mu>>

\* return r.dataSource.returnBrokenResourceObject(r) / returnResourceObject(r)
CloseReturn(k) ==
    /\ pc[k] = "Close.return"
    /\ pool' = IF conn.broken THEN returnBrokenResourceObject
               ELSE returnResourceObject
    /\ holder' = IF holder[k] = "none" THEN holder
                 ELSE [holder EXCEPT ![k] = "returned"]
    /\ Goto(k, "Close.Unlock")
    /\ UNCHANGED <<smAlgorithm, rw, conn, isInMulti, pipeline, dataSource, pipe, last, mu>>

\* connection.close: if c.socket == nil { return nil }
CloseCheck(k) ==
    /\ pc[k] = "close.isConnected"
    /\ Goto(k, IF isConnected(conn) THEN "close.socketClose" ELSE "Close.Unlock")
    /\ UNCHANGED <<smAlgorithm, rw, conn, isInMulti, pipeline, dataSource, pipe, pool, holder,
                   last, mu>>

\* connection.close: c.socket.Close()
CloseSocketClose(k) ==
    /\ pc[k] = "close.socketClose"
    /\ conn' = [conn EXCEPT !.io.close = @ + 1, !.wire = <<>>,
                            !.deadline = "none"]
    /\ Goto(k, "close.socketNil")
    /\ UNCHANGED <<smAlgorithm, rw, isInMulti, pipeline, dataSource, pipe, pool, holder, last,
                   mu>>

\* connection.close: c.socket = nil
CloseSocketNil(k) ==
    /\ pc[k] = "close.socketNil"
    /\ conn' = [conn EXCEPT !.socket = "nil"]
    /\ Goto(k, "Close.Unlock")
    /\ UNCHANGED <<smAlgorithm, rw, isInMulti, pipeline, dataSource, pipe, pool, holder, last,
                   mu>>

\* the deferred r.mu.Unlock()
CloseUnlock(k) ==
    /\ pc[k] = "Close.Unlock"
    /\ mu' = "free"
    /\ Goto(k, "ready")
    /\ UNCHANGED <<smAlgorithm, rw, conn, isInMulti, pipeline, dataSource, pipe, pool, holder,
                   last>>

CallSetDataSource(k) ==
    /\ pc[k] = "ready"
    /\ pool # "none"
    /\ Goto(k, "setDataSource.Lock")
    /\ UNCHANGED <<smAlgorithm, rw, conn, isInMulti, pipeline, dataSource, pipe, pool, holder,
                   last, mu>>

SetLock(k) ==
    /\ pc[k] = "setDataSource.Lock"
    /\ mu_Lock(k)
    /\ mu' = k
    /\ Goto(k, "setDataSource.write")
    /\ UNCHANGED <<smAlgorithm, rw, conn, isInMulti, pipeline, dataSource, pipe, pool, holder,
                   last>>

\* r.dataSource = pool: the store begins ...
SetWrite(k) ==
    /\ pc[k] = "setDataSource.write"
    /\ dataSource' = "half"
    /\ Goto(k, "setDataSource.written")
    /\ UNCHANGED <<smAlgorithm, rw, conn, isInMulti, pipeline, pipe, pool, holder, last, mu>>

\* ... and completes, with the pool or with nil
SetWritten(k) ==
    /\ pc[k] = "setDataSource.written"
    /\ \E p \in {"nil", "pool"} : dataSource' = p
    /\ Goto(k, "setDataSource.Unlock")
    /\ UNCHANGED <<smAlgorithm, rw, conn, isInMulti, pipeline, pipe, pool, holder, last, mu>>

SetUnlock(k) ==
    /\ pc[k] = "setDataSource.Unlock"
    /\ mu' = "free"
    /\ Goto(k, "ready")
    /\ UNCHANGED <<smAlgorithm, rw, conn, isInMulti, pipeline, dataSource, pipe, pool, holder,
                   last>>

\* the calls made one at a time between the concurrent ones
Between == Quiescent /\ (DoConnect \/ DoSend \/ DoReceive)

InitClose ==
    /\ NewRedis
    /\ \/ dataSource = "nil" /\ pool = "none"
       \/ dataSource \in {"nil", "pool"} /\ pool = GetResource
    /\ holder = [k \in Callers |-> IF pool = "none" THEN "none" ELSE "active"]
    /\ mu = "free"
    /\ pc = [k \in Callers |-> "ready"]
    /\ smAlgorithm = "SM3"
    /\ rw = NoRequest
    /\ last = [op |-> "NewRedis", err |-> "nil", val |-> "nil", n |-> 0,
               nerr |-> 0, pre |-> [broken |-> FALSE, socket |-> "nil"]]

NextClose ==
    \/ \E k \in Callers : CallClose(k)
    \/ \E k \in Callers : CloseLock(k)
    \/ \E k \in Callers : CloseReadDataSource(k)
    \/ \E k \in Callers : CloseReturn(k)
    \/ \E k \in Callers : CloseCheck(k)
    \/ \E k \in Callers : CloseSocketClose(k)
    \/ \E k \in Callers : CloseSocketNil(k)
    \/ \E k \in Callers : CloseUnlock(k)
    \/ \E k \in Callers : CallSetDataSource(k)
    \/ \E k \in Callers : SetLock(k)
    \/ \E k \in Callers : SetWrite(k)
    \/ \E k \in Callers : SetWritten(k)
    \/ \E k \in Callers : SetUnlock(k)
    \/ Between

SpecClose == InitClose /\ [][NextClose]_vars

(***************************************************************************)
(* main.go: the plugin.  New builds one Redis client that every request    *)
(* shares; ServeHTTP runs Set, Get and then writes the response.  Each     *)
(* request is a goroutine k at pc[k]; a step is the send half or the reply *)
(* half of Set or Get, or the response.  rw[k] is what the request has     *)
(* written to its ResponseWriter, with the outcome of its Get and the body *)
(* it read.                                                                *)
(***************************************************************************)
\* the request bodies
Bodies == {"", "abc"}

\* fmt.Sprintf("%x", sm3 digest of bytes)
sm3_hex(bytes) == [sm3 |-> bytes]

\* json.Marshal of the result map
json_Marshal(m) == [json |-> m]

\* the output as it would be if a failed Get ended the request
ServeHTTP_write_needsStore(alg, bytes, value) ==
    IF value # "nil" THEN <<>>
    ELSE IF alg = "SM3"
         THEN <<[to |-> "rw",
                 body |-> json_Marshal([result |-> sm3_hex(bytes), code |-> 0,
                                        message |-> "ok"])]>>
         ELSE <<[to |-> "rw", body |-> bytes]>>

\* the output of ServeHTTP, in order: each entry is a body written to rw (an
\* entry to "next" would be a call of the next handler; there is none).
\* value, what Get returned, goes to stdout only
ServeHTTP_write(alg, bytes, value) ==
    IF alg = "SM3"
    THEN <<[to |-> "rw",
            body |-> json_Marshal([result |-> sm3_hex(bytes), code |-> 0,
                                   message |-> "ok"])]>>
    ELSE <<[to |-> "rw", body |-> bytes]>>

\* the command of request k, answered by the server with a reply of this tag
CmdOf(k, tag) == [id |-> Len(Outstanding(conn)) + 1, tag |-> tag, by |-> k]

\* p.redis.Set("godis", "1"): the guard and client.set
ServeSetSend(k) ==
    \E e \in SendEnv, tag \in {"bytes", "error"} :
        LET s == client_send(Begin, CmdOf(k, tag), e)
            sent == checkIsInMultiOrPipeline = "nil" /\ s.err = "nil"
        IN  /\ pc[k] = "ready"
            /\ CanSend
            /\ conn' = IF checkIsInMultiOrPipeline # "nil" THEN conn
                       ELSE Finish(s.c)
            /\ pc' = [pc EXCEPT ![k] = IF sent THEN "Set.reply" ELSE "Get"]
            /\ rw' = [rw EXCEPT ![k] = NoRequest[k]]
            /\ UNCHANGED <<isInMulti, pipeline, dataSource, pipe, pool, holder,
                           last, mu, smAlgorithm>>

\* p.redis.Set: client.getStatusCodeReply, the result is dropped
ServeSetReply(k) ==
    \E e \in ReadEnv :
        /\ pc[k] = "Set.reply"
        /\ CanRead
        /\ conn' = Finish(getStatusCodeReply(Begin, e).c)
        /\ pc' = [pc EXCEPT ![k] = "Get"]
        /\ UNCHANGED <<isInMulti, pipeline, dataSource, pipe, pool, holder,
                       last, mu, smAlgorithm, rw>>

\* value, _ := p.redis.Get("godis"): the guard and client.get
ServeGetSend(k) ==
    \E e \in SendEnv, tag \in {"bytes", "nil", "error"} :
        LET s == client_send(Begin, CmdOf(k, tag), e)
            err == IF checkIsInMultiOrPipeline # "nil"
                   THEN checkIsInMultiOrPipeline ELSE s.err
        IN  /\ pc[k] = "Get"
            /\ CanSend
            /\ conn' = IF checkIsInMultiOrPipeline # "nil" THEN conn
                       ELSE Finish(s.c)
            /\ pc' = [pc EXCEPT ![k] = IF err = "nil" THEN "Get.reply"
                                       ELSE "respond"]
            /\ rw' = [rw EXCEPT ![k].value = err]
            /\ UNCHANGED <<isInMulti, pipeline, dataSource, pipe, pool, holder,
                           last, mu, smAlgorithm>>

\* p.redis.Get: client.getBulkReply
ServeGetReply(k) ==
    \E e \in ReadEnv :
        LET r == getBulkReply(Begin, e)
        IN  /\ pc[k] = "Get.reply"
            /\ CanRead
            /\ conn' = Finish(r.c)
            /\ pc' = [pc EXCEPT ![k] = "respond"]
            /\ rw' = [rw EXCEPT ![k].value = r.err]
            /\ UNCHANGED <<isInMulti, pipeline, dataSource, pipe, pool, holder,
                           last, mu, smAlgorithm>>

\* io.ReadAll(req.Body) and the rw.Write of either branch
ServeRespond(k) ==
    \E bytes \in Bodies :
        /\ pc[k] = "respond"
        /\ rw' = [rw EXCEPT ![k].body = bytes,
                            ![k].out = @ \o ServeHTTP_write(smAlgorithm, bytes,
                                                           rw[k].value)]
        /\ pc' = [pc EXCEPT ![k] = "ready"]
        /\ UNCHANGED <<conn, isInMulti, pipeline, dataSource, pipe, pool,
                       holder, last, mu, smAlgorithm>>

\* New: the client is built, not connected; smAlgorithm is the configured one
InitServe ==
    /\ NewRedis
    /\ dataSource = "nil"
    /\ pool = "none"
    /\ holder = [k \in Callers |-> "none"]
    /\ mu = "free"
    /\ pc = [k \in Callers |-> "ready"]
    /\ smAlgorithm \in {"SM3", "SM4"}
    /\ rw = NoRequest
    /\ last = [op |-> "NewRedis", err |-> "nil", val |-> "nil", n |-> 0,
               nerr |-> 0, pre |-> [broken |-> FALSE, socket |-> "nil"]]

NextServe ==
    \/ \E k \in Callers : ServeSetSend(k)
    \/ \E k \in Callers : ServeSetReply(k)
    \/ \E k \in Callers : ServeGetSend(k)
    \/ \E k \in Callers : ServeGetReply(k)
    \/ \E k \in Callers : ServeRespond(k)

SpecServe == InitServe /\ [][NextServe]_vars

(***************************************************************************)
(* getAll run one loop iteration at a time by goroutine "a", with Connect, *)
(* Send and Receive between the drains.  last counts the entries collected *)
(* so far; conn.io counts the network operations of the drain in progress. *)
(***************************************************************************)
\* one iteration of the loop as it would be if only a successful read counted
getAll_iteration_countsReplies(c, e) ==
    LET r == readProtocolWithCheckingBroken(c, e)
    IN  Res(IF r.err = "nil" THEN [r.c EXCEPT !.pipelinedCommands = @ - 1]
            ELSE r.c,
            r.err, r.val)

\* one iteration of the loop of getAll: a read, the entry, the decrement
getAll_iteration(c, e) ==
    LET r == readProtocolWithCheckingBroken(c, e)
    IN  Res([r.c EXCEPT !.pipelinedCommands = @ - 1], r.err, r.val)

\* the expect argument of the drain in progress
InLoop == pc["a"] \in {"getAll(0)", "getAll(1)"}

num == IF pc["a"] = "getAll(1)" THEN 1 ELSE 0

\* getAll up to the loop: expect, the flush, all := empty
DrainStart ==
    \E e \in ReadEnv, expect \in 0 .. 1 :
        LET f == flush(Begin, e)
        IN  /\ Quiescent
            /\ Owned
            /\ conn.protocol # "nil"
            /\ conn' = f.c
            /\ pc' = [pc EXCEPT !["a"] =
                         IF f.err # "nil" THEN "ready"
                         ELSE IF expect = 1 THEN "getAll(1)" ELSE "getAll(0)"]
            /\ last' = [op |-> "getAll", err |-> f.err, val |-> "nil",
                        n |-> 0, nerr |-> 0, pre |-> Pre]
            /\ UNCHANGED <<isInMulti, pipeline, dataSource, pipe, pool, holder,
                           mu, smAlgorithm, rw>>

\* for c.pipelinedCommands > num { ... }: the next read fails or does not
DrainIter ==
    \E fail \in BOOLEAN :
        LET e == [EnvOk EXCEPT !.failAt = IF fail THEN conn.io.read + 1 ELSE 0]
            it == getAll_iteration(conn, e)
        IN  /\ InLoop
            /\ conn.pipelinedCommands > num
            /\ conn' = it.c
            /\ last' = [last EXCEPT !.n = @ + 1,
                                    !.nerr = @ + CountErr(<<it.val>>)]
            /\ UNCHANGED <<isInMulti, pipeline, dataSource, pipe, pool, holder,
                           mu, pc, smAlgorithm, rw>>

\* the loop condition is false: return all, nil
DrainReturn ==
    /\ InLoop
    /\ ~(conn.pipelinedCommands > num)
    /\ pc' = [pc EXCEPT !["a"] = "ready"]
    /\ UNCHANGED <<conn, isInMulti, pipeline, dataSource, pipe, pool, holder,
                   last, mu, smAlgorithm, rw>>

NextDrain ==
    \/ DrainStart
    \/ DrainIter
    \/ DrainReturn
    \/ Between

\* a goroutine inside the loop keeps running
SpecDrain ==
    Init /\ [][NextDrain]_vars /\ WF_vars(DrainIter) /\ WF_vars(DrainReturn)

(***************************************************************************)
(* Properties.  A property about the result of an operation is stated for  *)
(* every reachable state and every environment the operation may meet.     *)
(***************************************************************************)
Max(a, b) == IF a >= b THEN a ELSE b

Min(a, b) == IF a <= b THEN a ELSE b

\* every combination of a flush outcome and a failing read; flush and the
\* reply reads consult no other part of the environment
FlushReadEnv ==
    {e \in Env : e.dialOk /\ e.dlOk /\ e.writeOk /\ e.infOk /\ e.rbOk}

AnyCmd == {NewCmd(conn, tag) : tag \in {"bytes", "int64", "error"}}

\* C1: while the client is inside a transaction (isInMulti), every ordinary
\* command method - Set, Get, SetBit, Eval, ... - is rejected with a
\* DataError and writes no command to the connection.
C1_OrdinaryRejectedInMulti ==
    isInMulti =>
        \A e \in Env, cmd \in AnyCmd :
            \A r \in {Set(cmd, e), Get(cmd, e), SetBit(cmd, e), Eval(cmd, e)} :
                r.err = "DataError" /\ r.c = Begin

\* C2: while a Pipeline obtained from Pipelined() holds an unread response,
\* every ordinary command method on the same Redis is rejected with a
\* DataError instead of sending its command.
C2_OrdinaryRejectedWhilePipelineOwes ==
    (pipe.live /\ pipe.pipelinedResponses > 0) =>
        \A e \in Env, cmd \in AnyCmd :
            \A r \in {Set(cmd, e), Get(cmd, e)} :
                r.err = "DataError" /\ r.c = Begin

\* C3: once broken is true, every later operation on the connection
\* (sendCommand, sendCommandByStr, flush, getOne, getAll,
\* getObjectMultiBulkReply) fails at once and attempts no network I/O.
C3_BrokenFencesEveryOperation ==
    conn.broken =>
        \A e \in Env, cmd \in AnyCmd :
            \A r \in {sendCommand(Begin, cmd, e), sendCommandByStr(Begin, cmd, e),
                      flush(Begin, e), getOne(Begin, e),
                      getObjectMultiBulkReply(Begin, e),
                      Res(getAll(Begin, 0, e).c, getAll(Begin, 0, e).err, Nil)} :
                r.err # "nil" /\ r.c.io = NoIO

C5_BrokenMonotonic == [][conn.broken => conn'.broken]_vars

\* a broken connection was closed and then dialled again by a later operation
C5_Witness ==
    /\ conn.broken
    /\ last.pre.broken
    /\ last.pre.socket = "nil"
    /\ conn.socket = "open"

\* C6: pipelinedCommands is never negative.
C6_PendingNeverNegative == conn.pipelinedCommands >= 0

\* C7: every connection error returned by a connection operation leaves the
\* connection marked broken.
C7_ConnectErrorMarksBroken ==
    \A e \in Env :
        \A r \in {connect(Begin, e), flush(Begin, e),
                  readProtocolWithCheckingBroken(Begin, e),
                  setTimeoutInfinite(Begin, e), rollbackTimeout(Begin, e)} :
            r.err = "ConnectError" => r.c.broken

\* C8: a drain returns the replies in submission order: the i-th entry of
\* getAll is the reply (a value or a server error) to the i-th outstanding
\* command, or the connection error that kept it from being read; it is
\* never the reply to another command.
C8_DrainIsFifo ==
    \A e \in FlushReadEnv, k \in 0 .. 1 :
        LET g == getAll(Begin, k, e)
            sent == IdSeq(Outstanding(conn))
        IN  g.err = "nil" =>
                \A i \in 1 .. Len(g.all) :
                    \/ g.all[i].tag = "ConnectError"
                    \/ i <= Len(sent) /\ g.all[i].id = sent[i]

\* a pipeline of two commands was drained, one reply a server error
C8_Witness ==
    /\ last.op = "Pipeline.Sync"
    /\ last.err = "nil"
    /\ last.n >= 2
    /\ last.nerr >= 1
    /\ last.nerr < last.n
    /\ ~conn.broken

\* C9: with p pending commands and expect = k, getAll flushes once, returns
\* a nil error exactly when the flush succeeded, and then returns
\* max(0, p - k) entries and leaves pipelinedCommands = min(p, k), whatever
\* reads failed on the way.
C9_DrainCountsAndErrors ==
    \A e \in FlushReadEnv, k \in 0 .. 1 :
        LET g == getAll(Begin, k, e)
            p == conn.pipelinedCommands
        IN  /\ g.c.io.write <= 1
            /\ (g.err = "nil") = (flush(Begin, e).err = "nil")
            /\ g.err = "nil" =>
                   /\ Len(g.all) = Max(0, p - k)
                   /\ g.c.pipelinedCommands = Min(p, k)

\* a drain in which a read failed and which still returned every entry
C9_Witness ==
    /\ last.op = "Pipeline.Sync"
    /\ last.err = "nil"
    /\ last.n >= 2
    /\ last.nerr >= 1
    /\ ~last.pre.broken
    /\ conn.broken
    /\ conn.pipelinedCommands = 0

\* C10: Close is pool-aware: without a pool it closes the socket; with a
\* pool it leaves the socket alone and hands the client to
\* returnBrokenResourceObject exactly when broken is set, otherwise to
\* returnResourceObject.
C10_CloseIsPoolAware ==
    [][last'.op = "Close" =>
          IF dataSource = "nil"
          THEN conn'.socket = "nil" /\ pool' = pool
          ELSE /\ conn'.socket = conn.socket
               /\ pool' = IF conn.broken THEN returnBrokenResourceObject
                          ELSE returnResourceObject]_vars

\* a broken pooled client was handed back with its socket still open
C10_Witness ==
    /\ last.op = "Close"
    /\ dataSource = "pool"
    /\ pool = returnBrokenResourceObject
    /\ conn.socket = "open"

\* C11: pool exclusivity: at no time do two callers hold the same borrowed
\* client, and a client handed back broken is never handed out again; for
\* every interleaving of GetResource and Close, repeated Close included.
C11_PoolExclusivity ==
    /\ Cardinality(Active) <= 1
    /\ last.op = "GetResource" => ~conn.broken

\* the environments that differ in a step Eval takes: Eval reads one reply,
\* and a failed SetDeadline in connect acts as a failed dial
EvalFaults == {e \in Env : e.dlOk /\ e.failAt <= 1}

C13_BreakageClearsInMulti ==
    [][/\ (isInMulti /\ ~conn.broken /\ conn'.broken) => ~isInMulti'
       /\ (last'.op = "Transaction.Discard" /\ last'.err = "nil") => ~isInMulti'
      ]_vars

\* C14: when the server answers EXEC with the null array, its signal that a
\* watched key was modified and the transaction aborted, every Exec that
\* returns without an error yields a distinguished outcome and not a reply
\* array.
C14_AbortedExecIsDistinguished ==
    isInMulti =>
        \A e \in Env :
            LET r == Transaction_Exec(NewCmd(conn, "nil"), e)
            IN  r.err = "nil" => r.val.tag # "array"

\* the environments that differ in a step a simple command takes: one dial,
\* one write to the buffer, one flush, one read
CmdFaults == {e \in Env : e.dlOk /\ e.infOk /\ e.rbOk /\ e.failAt <= 1}

\* an idle, healthy client: no transaction, no pipeline, nothing outstanding
IdleHealthy ==
    /\ ~isInMulti
    /\ pipe.pipelinedResponses = 0
    /\ ~conn.broken
    /\ conn.pipelinedCommands = 0
    /\ Outstanding(conn) = <<>>

\* C15: on an idle, healthy client a simple command that succeeds has sent
\* exactly one command and consumed exactly the reply to it: one flush, one
\* read, the value returned is the reply to the command just sent, and
\* pipelinedCommands is 0 again with nothing left outstanding - so SET
\* followed by GET gets the reply to SET and then the reply to GET.
C15_SimpleCommandPairsItsReply ==
    IdleHealthy =>
        \A e \in CmdFaults :
            LET set == NewCmd(conn, "bytes")
                get == NewCmd(conn, "bytes")
                bit == NewCmd(conn, "int64")
            IN  \A p \in {<<Set(set, e), set>>, <<Get(get, e), get>>,
                           <<SetBit(bit, e), bit>>} :
                    p[1].err = "nil" =>
                        /\ p[1].val = p[2]
                        /\ p[1].c.io.write = 1
                        /\ p[1].c.io.read = 1
                        /\ p[1].c.pipelinedCommands = 0
                        /\ Outstanding(p[1].c) = <<>>
                        /\ ~p[1].c.broken

\* a GET succeeded on a connection that an earlier command had opened, and
\* left the client idle and healthy again
C15_Witness ==
    /\ last.op = "Get"
    /\ last.err = "nil"
    /\ last.pre.socket = "open"
    /\ ~last.pre.broken
    /\ IdleHealthy

\* C16: for a client configured with a password or a database index: when
\* a command finds no socket and connects lazily, AUTH / SELECT are issued on
\* the new socket before the command is written to it - something was
\* written ahead of the command, or already flushed to the server; on first
\* use and on every reconnect alike.
C16_AuthBeforeFirstCommand ==
    conn.socket = "nil" =>
        \A e \in Env, cmd \in AnyCmd :
            \A r \in {Send(cmd, e), SendByStr(cmd, e), client_send(Begin, cmd, e)} :
                r.err = "nil" =>
                    \/ r.c.io.write >= 1
                    \/ Head(Outstanding(r.c)) # cmd

\* the environments that differ in a step sendCommand takes
SendFaults ==
    {e \in Env : e.flushOk /\ e.infOk /\ e.rbOk /\ e.failAt = 0}

\* C17: sendCommand and sendCommandByStr dial exactly when there is no
\* socket, never flush, and on success have appended the command to the
\* output buffer and raised pipelinedCommands by exactly one; when the
\* connect or the write to the buffer fails they return a connection error
\* and pipelinedCommands is what it was.
C17_SendCountsAfterWrite ==
    \A e \in SendFaults, cmd \in AnyCmd :
        \A r \in {sendCommand(Begin, cmd, e), sendCommandByStr(Begin, cmd, e)} :
            /\ r.c.io.dial = IF conn.socket = "nil" THEN 1 ELSE 0
            /\ r.c.io.write = 0 /\ r.c.io.read = 0
            /\ r.c.broken = conn.broken
            /\ IF e.writeOk /\ (conn.socket # "nil" \/ (e.dialOk /\ e.dlOk))
               THEN /\ r.err = "nil"
                    /\ r.c.socket = "open"
                    /\ r.c.pipelinedCommands = conn.pipelinedCommands + 1
                    /\ r.c.outBuf # <<>>
                    /\ r.c.outBuf[Len(r.c.outBuf)] = cmd
                    /\ Len(r.c.outBuf) =
                           (IF conn.socket = "nil" THEN 0 ELSE Len(conn.outBuf)) + 1
               ELSE /\ r.err = "ConnectError"
                    /\ r.c.pipelinedCommands = conn.pipelinedCommands
                    /\ cmd \notin {r.c.outBuf[i] : i \in 1 .. Len(r.c.outBuf)}
                           \/ r.c.outBuf = conn.outBuf

\* a Send found no socket, the dial failed, and the commands counted before
\* are still counted
C17_Witness ==
    /\ last.op = "Send"
    /\ last.err = "ConnectError"
    /\ last.pre.socket = "nil"
    /\ conn.socket = "nil"
    /\ conn.pipelinedCommands >= 1

\* C18: an error that is not a connection error - a server error reply read
\* by readProtocolWithCheckingBroken, a DataError from a typed accessor or
\* from the mode guard - leaves broken as it was and the socket open, so the
\* next command can use the connection.
C18_DataErrorKeepsConnection ==
    \A e \in CmdFaults, cmd \in AnyCmd :
        \A r \in {readProtocolWithCheckingBroken(Begin, e), getOne(Begin, e),
                  getStatusCodeReply(Begin, e), Set(cmd, e), Get(cmd, e)} :
            r.err \in {"RedisError", "DataError"} =>
                /\ r.c.broken = conn.broken
                /\ conn.socket = "open" => r.c.socket = "open"

\* outside a transaction a Set was answered with a reply of the wrong type:
\* the accessor reported a DataError and the connection is not broken
C18_Witness ==
    /\ last.op = "Set"
    /\ last.err = "DataError"
    /\ ~isInMulti
    /\ ~last.pre.broken
    /\ ~conn.broken
    /\ conn.socket = "open"

\* C19: a command that the mode guard rejects has no effect: whatever the
\* network would do, Set and Get return a DataError and leave the connection
\* exactly as it was - no dial, nothing written, nothing read, and
\* pipelinedCommands, broken and the socket unchanged.
C19_RejectedCommandHasNoEffect ==
    checkIsInMultiOrPipeline # "nil" =>
        \A e \in CmdFaults, cmd \in AnyCmd :
            \A r \in {Set(cmd, e), Get(cmd, e)} :
                /\ r.err = "DataError"
                /\ r.c = Begin
                /\ r.c.io = NoIO

\* inside a transaction, with the socket closed, a Set was rejected and did
\* not dial
C19_Witness ==
    /\ last.op = "Set"
    /\ last.err = "DataError"
    /\ isInMulti
    /\ last.pre.socket = "nil"
    /\ conn.socket = "nil"
    /\ conn.pipelinedCommands >= 1

\* the environments that differ in a step connect takes
DialFaults ==
    {e \in Env : e.writeOk /\ e.flushOk /\ e.infOk /\ e.rbOk /\ e.failAt = 0}

\* C20: connect is idempotent: on a connected connection it returns nil
\* without dialling and changes nothing - socket, streams and their
\* contents, deadline, broken, pipelinedCommands - and a second connect
\* after a successful one leaves the state of the first.
C20_ConnectIdempotent ==
    \A e \in DialFaults :
        /\ isConnected(Begin) => connect(Begin, e) = Res(Begin, "nil", Nil)
        /\ LET first == connect(Begin, e)
           IN  first.err = "nil" =>
                   \A f \in DialFaults :
                       connect(first.c, f) = Res(first.c, "nil", Nil)

\* Connect was called on a connection that was open and had a command
\* outstanding, and returned nil
C20_Witness ==
    /\ last.op = "Connect"
    /\ last.err = "nil"
    /\ last.pre.socket = "open"
    /\ conn.socket = "open"
    /\ conn.pipelinedCommands >= 1
    /\ Outstanding(conn) # <<>>

\* C21: close is idempotent and releases the socket exactly once: close on
\* an open socket closes it once and leaves isConnected false, close with no
\* socket does nothing and returns nil, and so does a second close after the
\* first; no operation drops an open socket without closing it.
C21_CloseIdempotent ==
    LET first == close(Begin)
        second == close(first.c)
    IN  /\ first.err = "nil"
        /\ ~isConnected(first.c)
        /\ first.c.io.close = IF isConnected(Begin) THEN 1 ELSE 0
        /\ ~isConnected(Begin) => first.c = Begin
        /\ second = Res(first.c, "nil", Nil)
        /\ \A e \in DialFaults :
               isConnected(Begin) => connect(Begin, e).c.socket = conn.socket

\* Close was called on a client whose socket an earlier Close had released
C21_Witness ==
    /\ last.op = "Close"
    /\ last.err = "nil"
    /\ last.pre.socket = "nil"
    /\ conn.socket = "nil"
    /\ conn.protocol = "set"
    /\ dataSource = "nil"

\* C22: no error is swallowed: when a step of a public operation fails, the
\* operation returns an error - so an Eval that returns nil has not marked
\* the connection broken nor left the deadline infinite, and an integer
\* accessor that returns nil has not met a reply of another shape.
C22_NoSwallowedError ==
    \A e \in EvalFaults, cmd \in AnyCmd :
        /\ LET r == Eval(cmd, e)
           IN  r.err = "nil" =>
                   r.c.broken = conn.broken /\ r.c.deadline # "infinite"
        /\ LET g == getIntegerReply(Begin, e)
           IN  g.err = "nil" => g.val.tag # "minusOne"

\* C23: a typed accessor that decodes a reply of another type than it
\* expects fails with a DataError: on a connection that has its streams it
\* neither crashes nor returns a default value in place of the reply.
C23_AccessorMismatchIsDataError ==
    conn.protocol # "nil" =>
        \A e \in FlushReadEnv :
            \A r \in {getStatusCodeReply(Begin, e), getBulkReply(Begin, e),
                      getBinaryBulkReply(Begin, e), getIntegerReply(Begin, e),
                      getObjectMultiBulkReply(Begin, e)} :
                r.err # "Panic" /\ r.val.tag # "minusOne"


\* C24: getIntegerReply answers a null reply with 0 and no error, and an
\* integer reply n with n and no error; in both cases the connection is left
\* exactly as the underlying getOne left it.
C24_IntegerReplyOfNullIsZero ==
    \A e \in FlushReadEnv :
        LET one == getOne(Begin, e)
            g == getIntegerReply(Begin, e)
        IN  one.err = "nil" =>
                /\ one.val.tag = "nil" =>
                       g = Res(one.c, "nil", [id |-> one.val.id, tag |-> "zero"])
                /\ one.val.tag = "int64" => g = one

C24_Witness ==
    last.op = "SetBit" /\ last.err = "nil" /\ last.val = "zero"


\* C25: there is no automatic retry. One public command dials at most once,
\* writes to the socket at most once and reads at most one reply; when the
\* dial, the write or the read fails, the command returns a ConnectError and
\* performs none of the later steps.
C25_NoAutomaticRetry ==
    \A cmd \in AnyCmd :
        \A p \in {<<e, Set(cmd, e)>> : e \in CmdFaults}
                 \cup {<<e, Get(cmd, e)>> : e \in CmdFaults}
                 \cup {<<e, SetBit(cmd, e)>> : e \in CmdFaults}
                 \cup {<<e, Eval(cmd, e)>> : e \in EvalFaults} :
            LET e == p[1]
                r == p[2]
            IN  /\ r.c.io.dial <= 1 /\ r.c.io.write <= 1 /\ r.c.io.read <= 1
                /\ r.c.io.dial = 1 /\ ~e.dialOk =>
                       /\ r.err = "ConnectError" /\ ~isConnected(r.c)
                       /\ r.c.io.write = 0 /\ r.c.io.read = 0
                /\ r.c.io.write = 1 /\ ~e.flushOk =>
                       r.err = "ConnectError" /\ r.c.io.read = 0
                /\ r.c.io.read = 1 /\ e.failAt = 1 => r.err = "ConnectError"

C25_Witness ==
    /\ last.op = "Set" /\ last.err = "ConnectError"
    /\ ~last.pre.broken /\ last.pre.socket = "open"
    /\ conn.broken /\ conn.outBuf # <<>>


\* C26: MULTI followed at once by EXEC on a connection that is not broken:
\* getAll with expect = 1 consumes every earlier reply and leaves exactly the
\* EXEC reply outstanding, and Exec returns that reply.
C26_ExecReplyLeftPending ==
    (last.op = "Multi" /\ last.err = "nil" /\ isInMulti /\ ~conn.broken) =>
        LET cmd == NewCmd(conn, "array")
            r == Transaction_Exec(cmd, EnvOk)
        IN  /\ r.g.err = "nil"
            /\ Outstanding(r.g.c) = <<cmd>>
            /\ r.err = "nil" /\ r.val = cmd


\* C27: after an Eval whose restore succeeded, the deadline of the connection
\* is derived from the read timeout soTimeout, the one connect installs.
C27_RestoredDeadlineIsSoTimeout ==
    \A e \in EvalFaults, cmd \in AnyCmd :
        LET r == Eval(cmd, e)
        IN  (isConnected(r.c) /\ ~r.c.broken) => r.c.deadline = "soTimeout"


\* C28: on a connected connection that is not broken, pipelinedCommands equals
\* the number of commands sent on the current socket whose replies have not
\* been consumed.
C28_PendingCountsOutstanding ==
    (isConnected(conn) /\ ~conn.broken) =>
        conn.pipelinedCommands = Len(Outstanding(conn))


\* C29: while the client is in the queuing state (isInMulti), Multi is
\* refused: it returns an error and sends no second MULTI.
C29_MultiOnlyFromIdle ==
    isInMulti =>
        \A e \in SendFaults :
            LET cmd == NewCmd(conn, "bytes")
                r == Multi(cmd, e)
            IN  r.err # "nil" /\ Outstanding(r.c) = Outstanding(Begin)


\* C30: Close and setDataSource are critical sections of the mutex mu. At
\* most one goroutine is between Lock and Unlock and it is the one that holds
\* the mutex; a socket is closed at most once, and a Close of a pool-less
\* client that found the socket open leaves it closed and nil; the pool
\* reference is in the middle of a store only while the storing goroutine
\* holds the mutex, and Close never reads it in that condition.
C30_CloseIsCriticalSection ==
    /\ \A j, k \in Callers : (InBody(j) /\ InBody(k)) => j = k
    /\ \A k \in Callers : InBody(k) => mu = k
    /\ conn.io.close <= 1
    /\ \A k \in Callers :
           /\ pc[k] = "close.socketNil" => conn.io.close = 1
           /\ (pc[k] = "Close.Unlock" /\ dataSource = "nil") => ~isConnected(conn)
           /\ pc[k] # "Close.torn"
    /\ dataSource = "half" => \E k \in Callers : pc[k] = "setDataSource.written"

C30_Witness ==
    \E j, k \in Callers :
        /\ pc[j] = "close.socketNil" /\ conn.io.close = 1
        /\ pc[k] \in {"Close.Lock", "setDataSource.Lock"}


\* C31: with several requests in progress on the shared client, a request
\* that consumes a reply consumes the reply to the command it sent itself.
C31_ReplyGoesToItsSender ==
    [][\A k \in Callers :
          (/\ pc[k] \in {"Set.reply", "Get.reply"}
           /\ pc'[k] # pc[k]
           /\ Len(Outstanding(conn')) < Len(Outstanding(conn)))
              => Head(Outstanding(conn)).by = k]_vars


\* C32: a broken connection is never recovered. No operation clears the
\* broken flag; while it is set every Set and Get returns an error and leaves
\* it set; close followed by a reconnect leaves it set, and a command sent on
\* the new socket still has its reply refused.
C32_BrokenIsNeverRecovered ==
    /\ [][conn.broken => conn'.broken]_vars
    /\ [](conn.broken =>
             \A e \in CmdFaults, cmd \in AnyCmd :
                 /\ \A r \in {Set(cmd, e), Get(cmd, e)} :
                        r.err # "nil" /\ r.c.broken
                 /\ LET again == connect(close(Begin).c, e)
                        s == sendCommand(again.c, cmd, e)
                    IN  /\ again.c.broken
                        /\ s.err = "nil" =>
                               getStatusCodeReply(s.c, e).err = "ConnectError")

C32_Witness ==
    /\ last.op = "Set" /\ last.err = "ConnectError"
    /\ last.pre.broken /\ last.pre.socket = "nil"
    /\ isConnected(conn) /\ conn.broken


\* the environments in which the dial fails
NoDial == {e \in EvalFaults : ~e.dialOk}

\* C33: a failed dial marks the connection broken when it happens inside
\* Eval (setTimeoutInfinite dials, the deferred rollbackTimeout finds no
\* socket), and leaves broken as it was when it happens inside sendCommand
\* (Set, Get, SetBit, Send); in both cases the error is a ConnectError, no
\* socket is kept, and the next connect dials again.
C33_DialFailureAndBroken ==
    ~isConnected(conn) =>
        \A e \in NoDial, cmd \in AnyCmd :
            /\ LET ev == Eval(cmd, e)
               IN  /\ ev.err = "ConnectError" /\ ev.c.io.dial = 1
                   /\ ev.c.broken /\ ~isConnected(ev.c)
            /\ \A r \in {Set(cmd, e), Get(cmd, e), SetBit(cmd, e), Send(cmd, e)} :
                   r.c.io.dial = 1 =>
                       /\ r.err = "ConnectError"
                       /\ r.c.broken = conn.broken /\ ~isConnected(r.c)
                       /\ LET next == connect([r.c EXCEPT !.io = NoIO], EnvOk)
                          IN  next.c.io.dial = 1 /\ isConnected(next.c)

C33_Witness ==
    /\ last.op = "Eval" /\ last.err = "ConnectError"
    /\ last.pre.socket = "nil" /\ ~last.pre.broken
    /\ conn.broken /\ ~isConnected(conn)


\* C34: Receive on a client whose protocol streams do not exist returns an
\* error value, without a nil dereference, and leaves pipelinedCommands and
\* broken as they were.
C34_ReceiveBeforeConnectIsAnError ==
    conn.protocol = "nil" =>
        \A e \in ReadEnv :
            LET r == Receive(e)
            IN  /\ r.err \in {"ConnectError", "DataError"}
                /\ r.c.pipelinedCommands = conn.pipelinedCommands
                /\ r.c.broken = conn.broken


\* C35: getAll terminates. Every drain that entered the loop leaves it; each
\* iteration adds one entry and lowers pipelinedCommands by one whether the
\* read succeeded or failed, the loop runs only while pipelinedCommands
\* exceeds expect, and once the connection is broken an iteration adds an
\* error entry without a network read.
C35_DrainTerminates ==
    /\ InLoop ~> ~InLoop
    /\ [][(InLoop /\ InLoop') =>
             /\ conn.pipelinedCommands > num
             /\ conn'.pipelinedCommands = conn.pipelinedCommands - 1
             /\ last'.n = last.n + 1
             /\ conn.broken =>
                    /\ conn'.io.read = conn.io.read
                    /\ last'.nerr = last.nerr + 1]_vars

C35_Witness ==
    /\ InLoop /\ conn.broken /\ ~last.pre.broken
    /\ conn.io.read >= 1 /\ last.n > conn.io.read /\ last.nerr >= 2


====
